---------------------------- MODULE Spec2Model ----------------------------
(***************************************************************************)
(* Model of the bulk jobs of the Oklahoma legal-document pipeline and of   *)
(* the progress files they keep:                                           *)
(*   html   HTMLDownloader.download_statutes   (html_downloader.py)        *)
(*   retry  retry_failed_statutes.main         (retry_failed_statutes.py)  *)
(*   batch  BatchCaseScraper.scrape_court_cases (batch_scrape_cases.py)    *)
(*   slow   SlowStatuteDownloader.download_from_url_list                   *)
(*                                              (slow_downloader.py)       *)
(*   embed  process_cases                (generate_case_law_embeddings.py) *)
(* One behaviour follows one progress file (prog) through several runs of  *)
(* the scripts that read and write it.  A run may be interrupted at any    *)
(* position (KeyboardInterrupt), also between the open(..., 'w') that      *)
(* truncates the progress file and the json.dump that fills it.            *)
(***************************************************************************)
EXTENDS Integers, Sequences, FiniteSets, TLC

\* ---------------------------------------------------------------- bounds
\* Number of distinct citeIds of the discovered work list.
NumDocs == 3
\* Number of script runs in one behaviour.
MaxRuns == 3
\* Period of the periodic save of HTMLDownloader (len(downloaded_ids) % 10,
\* html_downloader.py:128) and of SlowStatuteDownloader (i % 10,
\* slow_downloader.py:165), scaled down to the size of the work list.
SaveEveryDownloads == 3
\* batch_size of BatchCaseScraper (10, batch_scrape_cases.py:115), scaled down.
batch_size == 2
\* The periodic save of BatchCaseScraper ((i + 1) % 50, batch_scrape_cases.py:141)
\* comes every 5 batch sizes; the ratio is scaled down, the divisibility kept.
BatchesPerSave == 2
SaveEveryCases == BatchesPerSave * batch_size
\* BATCH_SIZE of generate_case_law_embeddings.py (line 50), scaled down.
BATCH_SIZE == 2

\* The source site fails only for the citeIds 1..MaxFlaky.
MaxFlaky == 1
\* Largest max_retries a fetch function is called with.
MaxRetries == 4
\* Years of one discovery (self.years has 6, case_law_discoverer.py:34) and
\* pagination links a search result can carry.
NumYears == 2
MaxPages == 2
\* Distinct citeIds the pages of one court can link to, and document links
\* on one page.
NumCrawlIds == 2
MaxLinks == 2
\* citeIds written to the relational store and the vector index, and writes
\* followed in one behaviour.
NumStatutes == 2
MaxStoreWrites == 3
\* Request threads of the web layer and the requests each of them handles.
NumThreads == 2
MaxCalls == 2

CiteIds == 1..NumDocs
FlakyIds == 1..MaxFlaky

VARIABLES
    prog,             \* which progress file this behaviour follows
    script,           \* the script now running, or "none"
    pc,               \* its position
    resume,           \* where a save returns to: "loop" or "exit"
    runs,             \* runs started so far
    exit_status,      \* how the last run ended: none, done, interrupted, crashed
    progress_file,    \* the JSON progress file on disk
    urls,             \* the discovered work list (url file / discovery file / table)
    i,                \* loop index of the running script
    \* HTMLDownloader
    downloaded_ids, failed_ids, to_download,
    \* retry_failed_statutes.main
    progress, newly_successful, still_failed,
    \* BatchCaseScraper
    scraped_cite_ids, failed_cite_ids, batch, remaining_cite_ids, oklahoma_cases,
    \* SlowStatuteDownloader
    downloaded, statute_html,
    \* process_cases
    cases_processed, cases_to_process, case_law_index,
    \* ghosts (history variables, not program state)
    g_recorded,       \* citeIds this tracker instance holds as recorded with success
    g_persisted,      \* g_recorded as of the last completed write of the file
    g_loaded,         \* what the running job loaded at its start: scraped, failed
    g_todo,           \* the work list the running job computed at its start
    g_fetched,        \* citeIds the running job has attempted (sent a request for)
    g_failures,       \* <<citeId, cause>> of the failed attempts of the running job
    g_abandoned,      \* the last run ended by itself with work-list items unattempted
    \* one call of a fetch function
    fetcher,          \* the function called
    max_retries,      \* its max_retries argument
    fpc,              \* "attempt" or "done"
    attempt,          \* the loop variable of its retry loop
    attempts_made,    \* requests it has sent
    delays,           \* the sleeps it has taken between attempts, in seconds
    fetch_result,     \* "none", "ok" or "error"
    last_response,    \* what its last request met: "none", "page" (200, the
                      \* document), "challenge" (200, an anti-bot page),
                      \* "refused" (403, 503) or "failure" (the rest)
    \* one run of CaseLawDiscoverer.discover_court_cases
    cpc,              \* "level", "search", "pages", "year_sleep", "done" or "idle"
    year,             \* index into self.years
    level,            \* index level of the next index request
    pages_left,       \* pagination links of the search result still to follow
    requests_sent,    \* requests sent so far
    waited,           \* milliseconds slept since the last request was sent
    g_wait_before,    \* milliseconds slept between the last two requests
    all_cite_ids,     \* discover_year_cases: the set of the year so far
    cite_ids,         \* discover_court_cases: the list of the court so far
    pages_fetched,    \* pagination requests sent for the current search
    g_page_links,     \* pagination links on the result page of the current search
    \* the relational store (Supabase) and the vector index (Pinecone)
    cite_id_unique,   \* the schema: statutes.cite_id carries a unique constraint
    statutes,         \* rows of the table statutes: id, cite_id, version (the parse)
    child_rows,       \* rows of the child tables: statute_id, table, version
    vectors,          \* the statute index: citeId -> version of its vector, 0 if none
    next_id,          \* the next generated primary key of statutes
    writes,           \* writes started so far; write n stores parse version n
    uploaded,         \* progress['uploaded'] of the HTML uploader
    last_write,       \* the last write: who, what, and how it ended
    g_child_failed,   \* citeIds for which insert_statute failed in a child table
    g_force_update,   \* force_update of the last scrape_and_store_statute call
    \* the web layer: one request at a time
    rag_module,       \* the module behind "from rag_search import ConstitutionRAG"
    connected,        \* the partitions SearchSystem holds an index handle for
    web_req,          \* the last request: route, source, what happened inside
    response,         \* the response it got: status, kind, text, internal detail
    \* the lazily built client caches, under concurrent requests
    cache_kind,       \* which cache: search_system, rag_system or jwks
    ready,            \* self.ready, or the truth value of _jwks_cache
    clients,          \* the cached objects, by slot; 0 is None
    tpc,              \* thread -> its position in the initialiser
    calls,            \* thread -> requests it has started
    g_cached,         \* the cached objects when the flag was first set
    html_file,        \* the HTML file being parsed
    parser,           \* the parser that reads it, or "none"
    parse_out,        \* what its successive calls returned
    clock,            \* the wall clock, as datetime.now() last read it
    doc_words,        \* main_text of the stored section: the lengths of its words
    doc_version,      \* how many times that text has been written
    pinecone,         \* the vectors of the index: id and version of the text
    g_chunks,         \* chunks made from the current text by the last build
    g_index_ok,       \* the current text was indexed with no error
    composer,         \* which rag_search module composes the answer
    session_rows,     \* conversation_messages: the rows of the one session
    llm_history,      \* what get_messages_for_llm last returned
    llm_prompt        \* the prompt generate_answer last built

ctlVars   == <<prog, script, pc, resume, runs, exit_status, urls, i>>
htmlVars  == <<downloaded_ids, failed_ids, to_download>>
retryVars == <<progress, newly_successful, still_failed>>
batchVars == <<scraped_cite_ids, failed_cite_ids, batch, remaining_cite_ids>>
slowVars  == <<downloaded>>
embedVars == <<cases_processed, cases_to_process>>
\* what the jobs leave outside their process: rows, HTML files, vectors
storeVars == <<oklahoma_cases, statute_html, case_law_index>>
memVars   == <<htmlVars, retryVars, batchVars, slowVars, embedVars>>
runGhosts == <<g_loaded, g_todo, g_fetched, g_failures>>
ghostVars == <<g_recorded, g_persisted, runGhosts, g_abandoned>>
jobVars   == <<ctlVars, progress_file, memVars, storeVars, ghostVars>>
fetchVars == <<fetcher, max_retries, fpc, attempt, attempts_made, delays, fetch_result,
               last_response>>
crawlVars == <<cpc, year, level, pages_left, requests_sent, waited, g_wait_before,
               all_cite_ids, cite_ids, pages_fetched, g_page_links>>
dbVars    == <<cite_id_unique, statutes, child_rows, vectors, next_id, writes,
               uploaded, last_write, g_child_failed, g_force_update>>
webVars   == <<rag_module, connected, web_req, response>>
cacheVars == <<cache_kind, ready, clients, tpc, calls, g_cached>>
parseVars == <<html_file, parser, parse_out, clock>>
indexVars == <<doc_words, doc_version, pinecone, g_chunks, g_index_ok>>
chatVars  == <<composer, session_rows, llm_history, llm_prompt>>
textVars  == <<parseVars, indexVars, chatVars>>
svcVars   == <<fetchVars, crawlVars, dbVars, webVars, cacheVars>>
netVars   == <<svcVars, textVars>>
\* what the actions of one part leave alone
notFetch  == <<jobVars, crawlVars, dbVars, webVars, cacheVars, textVars>>
notCrawl  == <<jobVars, fetchVars, dbVars, webVars, cacheVars, textVars>>
notStore  == <<jobVars, fetchVars, crawlVars, webVars, cacheVars, textVars>>
notWeb    == <<jobVars, fetchVars, crawlVars, dbVars, cacheVars, textVars>>
notCache  == <<jobVars, fetchVars, crawlVars, dbVars, webVars, textVars>>
notParse  == <<jobVars, svcVars, indexVars, chatVars>>
notIndex  == <<jobVars, svcVars, parseVars, chatVars>>
notChat   == <<jobVars, svcVars, parseVars, indexVars>>
vars == <<jobVars, netVars>>

\* ------------------------------------------------------------ data helpers
Range(s) == {s[k] : k \in 1..Len(s)}

\* An entry of the file's downloaded/scraped list: a bare citeId, as the
\* trackers write it, or a dict with a cite_id key, as the retry script does.
IdEntry(c)   == [kind |-> "id",   cite_id |-> c]
DictEntry(c) == [kind |-> "dict", cite_id |-> c]

\* An entry of a failed list.
FailedEntry(c, e, ts) == [cite_id |-> c, error |-> e, timestamp |-> ts]

\* A list() that loses the last element of the set.
RECURSIVE SetToList_Drop(_)
SetToList_Drop(S) ==
    IF Cardinality(S) <= 1 THEN <<>>
    ELSE LET x == CHOOSE y \in S : \A z \in S : y <= z
         IN <<IdEntry(x)>> \o SetToList_Drop(S \ {x})
\* list(a_set): some fixed order of the elements.
RECURSIVE SetToList(_)
SetToList(S) ==
    IF S = {} THEN <<>>
    ELSE LET x == CHOOSE y \in S : \A z \in S : y <= z
         IN <<IdEntry(x)>> \o SetToList(S \ {x})

\* A set() that keeps only the first element of the list.
ListToSet_First(s) == IF Len(s) = 0 THEN {} ELSE {s[1].cite_id}
\* set(a_list) of a list of bare citeIds.
ListToSet(s) == {s[k].cite_id : k \in 1..Len(s)}

\* set() raises TypeError on a dict element (unhashable).
Hashable(s) == \A k \in 1..Len(s) : s[k].kind = "id"

\* What a process holds of the file before it has loaded anything.
NothingLoaded == [scraped |-> {}, failed |-> <<>>]

NoFile == [state |-> "absent", scraped |-> <<>>, failed |-> <<>>]
\* open(path, 'w') has truncated the file and json.dump has not finished.
PartialFile == [state |-> "partial", scraped |-> <<>>, failed |-> <<>>]
OkFile(sc, fl) == [state |-> "ok", scraped |-> sc, failed |-> fl]

\* ------------------------------------------------------------------ Init
\* supabase.table('oklahoma_cases').select('*'): one row per id.
AllCases == [k \in 1..NumDocs |-> k]

\* The url collector appends one entry per link and does not de-duplicate
\* (url_collector.py:64-87): the work list names every citeId, one of them twice.
WorkList == [k \in 1..(NumDocs + 1) |-> IF k <= NumDocs THEN k ELSE 1]

\* No fetch function is being followed.
FetchIdle ==
    /\ fetcher = "none"
    /\ max_retries = 0
    /\ fpc = "idle"
    /\ attempt = 0
    /\ attempts_made = 0
    /\ delays = <<>>
    /\ fetch_result = "none"
    /\ last_response = "none"

\* No discovery is being followed.
CrawlIdle ==
    /\ cpc = "idle"
    /\ year = 0
    /\ level = 0
    /\ pages_left = 0
    /\ requests_sent = 0
    /\ waited = 0
    /\ g_wait_before = 0
    /\ all_cite_ids = {}
    /\ cite_ids = <<>>
    /\ pages_fetched = 0
    /\ g_page_links = 0

\* The store is not being followed: no table, no write.
StoreIdle ==
    /\ cite_id_unique = FALSE
    /\ statutes = {}
    /\ child_rows = {}
    /\ vectors = <<>>
    /\ next_id = 0
    /\ writes = 0
    /\ uploaded = {}
    /\ last_write = <<>>
    /\ g_child_failed = {}
    /\ g_force_update = FALSE

\* The web layer is not being followed.
WebIdle ==
    /\ rag_module = "none"
    /\ connected = {}
    /\ web_req = <<>>
    /\ response = <<>>

CacheIdle ==
    /\ cache_kind = "none"
    /\ ready = FALSE
    /\ clients = <<>>
    /\ tpc = <<>>
    /\ calls = <<>>
    /\ g_cached = <<>>

\* Before the first run: no progress file, nothing stored, no process.
JobsInit(progs) ==
    /\ prog \in progs
    /\ script = "none"
    /\ pc = "idle"
    /\ resume = "loop"
    /\ runs = 0
    /\ exit_status = "none"
    /\ progress_file = NoFile
    /\ urls = IF prog = "embed" THEN AllCases ELSE WorkList
    /\ i = 0
    /\ downloaded_ids = {}
    /\ failed_ids = <<>>
    /\ to_download = <<>>
    /\ progress = [downloaded |-> <<>>, failed |-> <<>>]
    /\ newly_successful = <<>>
    /\ still_failed = <<>>
    /\ scraped_cite_ids = {}
    /\ failed_cite_ids = <<>>
    /\ batch = <<>>
    /\ remaining_cite_ids = <<>>
    /\ oklahoma_cases = {}
    /\ downloaded = {}
    /\ statute_html = {}
    /\ cases_processed = <<>>
    /\ cases_to_process = <<>>
    /\ case_law_index = {}
    /\ g_recorded = {}
    /\ g_persisted = {}
    /\ g_loaded = NothingLoaded
    /\ g_todo = {}
    /\ g_fetched = {}
    /\ g_failures = {}
    /\ g_abandoned = FALSE

\* No file is being parsed.
ParseIdle ==
    /\ html_file = <<>>
    /\ parser = "none"
    /\ parse_out = <<>>
    /\ clock = 0

\* No index is being built.
IndexIdle ==
    /\ doc_words = <<>>
    /\ doc_version = 0
    /\ pinecone = {}
    /\ g_chunks = <<>>
    /\ g_index_ok = FALSE

\* No conversation is going on.
ChatIdle ==
    /\ composer = "none"
    /\ session_rows = {}
    /\ llm_history = <<>>
    /\ llm_prompt = <<>>

TextIdle == ParseIdle /\ IndexIdle /\ ChatIdle

Init ==
    /\ JobsInit({"html", "batch", "slow", "embed"})
    /\ FetchIdle /\ CrawlIdle /\ StoreIdle /\ WebIdle /\ CacheIdle /\ TextIdle

\* The in-memory state of a process that has ended.
ResetMem ==
    /\ i' = 0
    /\ resume' = "loop"
    /\ downloaded_ids' = {}
    /\ failed_ids' = <<>>
    /\ to_download' = <<>>
    /\ progress' = [downloaded |-> <<>>, failed |-> <<>>]
    /\ newly_successful' = <<>>
    /\ still_failed' = <<>>
    /\ scraped_cite_ids' = {}
    /\ failed_cite_ids' = <<>>
    /\ batch' = <<>>
    /\ remaining_cite_ids' = <<>>
    /\ downloaded' = {}
    /\ cases_processed' = <<>>
    /\ cases_to_process' = <<>>
    /\ g_recorded' = {}
    /\ g_loaded' = NothingLoaded
    /\ g_todo' = {}
    /\ g_fetched' = {}
    /\ g_failures' = {}

\* The process ends; attempted is what it has attempted of its work list.
EndRun(status, attempted) ==
    /\ script' = "none"
    /\ pc' = "idle"
    /\ exit_status' = status
    /\ g_abandoned' = (status \in {"done", "crashed"} /\ ~(g_todo \subseteq attempted))
    /\ ResetMem

StartRun(s) ==
    /\ script = "none"
    /\ runs < MaxRuns
    /\ script' = s
    /\ pc' = "load"
    /\ runs' = runs + 1
    /\ exit_status' = "none"
    /\ g_abandoned' = FALSE
    /\ UNCHANGED <<netVars, prog, resume, urls, i, progress_file, memVars, storeVars,
                   g_recorded, g_persisted, runGhosts>>

\* ------------------------------------------------- HTMLDownloader (html)
StartHtml == prog = "html" /\ StartRun("html")

\* A work list that forgets the filter by the loaded set.
Remaining_All(list, done) == list
\* [u for u in urls if u['cite_id'] not in self.downloaded_ids], and its like
\* in the other jobs.
Remaining(list, done) == SelectSeq(list, LAMBDA c : c \notin done)

HtmlLoadProgress ==
    /\ script = "html" /\ pc = "load"
    /\ \/ /\ progress_file.state = "absent"
          /\ downloaded_ids' = {}
          /\ failed_ids' = <<>>
          /\ to_download' = Remaining(urls, {})
          /\ g_recorded' = {}
          /\ g_loaded' = NothingLoaded
          /\ g_todo' = Range(to_download')
          /\ pc' = "loop"
          /\ UNCHANGED <<script, exit_status, i, resume, retryVars, batchVars,
                         slowVars, embedVars, g_fetched, g_failures, g_abandoned>>
       \/ /\ progress_file.state = "ok"
          /\ Hashable(progress_file.scraped)
          /\ downloaded_ids' = ListToSet(progress_file.scraped)
          /\ failed_ids' = progress_file.failed
          /\ to_download' = Remaining(urls, downloaded_ids')
          /\ g_recorded' = g_persisted
          /\ g_loaded' = [scraped |-> downloaded_ids', failed |-> failed_ids']
          /\ g_todo' = Range(to_download')
          /\ pc' = "loop"
          /\ UNCHANGED <<script, exit_status, i, resume, retryVars, batchVars,
                         slowVars, embedVars, g_fetched, g_failures, g_abandoned>>
       \/ \* json.load raises JSONDecodeError; nothing catches it before main
          /\ progress_file.state = "partial"
          /\ EndRun("crashed", g_fetched)
       \/ \* set() raises TypeError: unhashable type: 'dict'
          /\ progress_file.state = "ok"
          /\ ~Hashable(progress_file.scraped)
          /\ EndRun("crashed", g_fetched)
    /\ UNCHANGED <<netVars, prog, runs, urls, progress_file, storeVars, g_persisted>>

\* A download_html without the periodic save.
HtmlSaveDue_Never(n) == FALSE
\* "Save progress every 10 downloads": len(self.downloaded_ids) % 10 == 0.
HtmlSaveDue(n) == n % SaveEveryDownloads = 0

\* A failed entry without the 'timestamp' key.
HtmlFailure_NoTimestamp(c, e) == FailedEntry(c, e, FALSE)
\* The entry download_html appends to failed_ids.
HtmlFailure(c, e) == FailedEntry(c, e, TRUE)

\* One iteration of the loop of download_statutes: download_html(url, cite_id).
HtmlDownloadHtml ==
    /\ script = "html" /\ pc = "loop" /\ i < Len(to_download)
    /\ LET c == to_download[i + 1] IN
       \/ \* already downloaded: return True
          /\ c \in downloaded_ids
          /\ UNCHANGED <<downloaded_ids, failed_ids, pc, resume, g_recorded,
                         g_persisted, runGhosts>>
       \/ \* time.sleep(delay); GET; save HTML; add; save every 10 downloads
          /\ c \notin downloaded_ids
          /\ downloaded_ids' = downloaded_ids \cup {c}
          /\ g_recorded' = g_recorded \cup {c}
          /\ g_fetched' = g_fetched \cup {c}
          /\ IF HtmlSaveDue(Cardinality(downloaded_ids'))
             THEN pc' = "save_open" /\ resume' = "loop"
             ELSE UNCHANGED <<pc, resume>>
          /\ UNCHANGED <<failed_ids, g_persisted, g_loaded, g_todo, g_failures>>
       \/ \* requests.exceptions.RequestException
          /\ c \notin downloaded_ids
          /\ c \in FlakyIds
          /\ failed_ids' = Append(failed_ids, HtmlFailure(c, "RequestException"))
          /\ g_fetched' = g_fetched \cup {c}
          /\ g_failures' = g_failures \cup {<<c, "RequestException">>}
          /\ UNCHANGED <<downloaded_ids, pc, resume, g_recorded, g_persisted,
                         g_loaded, g_todo>>
       \/ \* any other Exception (for example writing the HTML file)
          /\ c \notin downloaded_ids
          /\ c \in FlakyIds
          /\ failed_ids' = Append(failed_ids, HtmlFailure(c, "Exception"))
          /\ g_fetched' = g_fetched \cup {c}
          /\ g_failures' = g_failures \cup {<<c, "Exception">>}
          /\ UNCHANGED <<downloaded_ids, pc, resume, g_recorded, g_persisted,
                         g_loaded, g_todo>>
    /\ i' = i + 1
    /\ UNCHANGED <<netVars, prog, script, runs, exit_status, urls, progress_file,
                   to_download, retryVars, batchVars, slowVars, embedVars, storeVars,
                   g_abandoned>>

\* After the loop: the final save_progress().
HtmlFinalSave ==
    /\ script = "html" /\ pc = "loop" /\ i = Len(to_download)
    /\ pc' = "save_open"
    /\ resume' = "exit"
    /\ UNCHANGED <<netVars, prog, script, runs, exit_status, urls, i, progress_file,
                   memVars, storeVars, ghostVars>>


\* ---------------------------------------- retry_failed_statutes.main (retry)
StartRetry == prog = "html" /\ StartRun("retry")

\* load_progress() and failed_list = progress.get('failed', []).
RetryLoad ==
    /\ script = "retry" /\ pc = "load"
    /\ \/ \* open() raises FileNotFoundError, or json.load raises
          /\ progress_file.state # "ok"
          /\ EndRun("crashed", g_fetched)
       \/ \* "No failed downloads to retry!": return
          /\ progress_file.state = "ok"
          /\ progress_file.failed = <<>>
          /\ EndRun("done", g_fetched)
       \/ /\ progress_file.state = "ok"
          /\ progress_file.failed # <<>>
          /\ progress' = [downloaded |-> progress_file.scraped,
                          failed |-> progress_file.failed]
          /\ newly_successful' = <<>>
          /\ still_failed' = <<>>
          /\ g_recorded' = g_persisted
          /\ g_loaded' = [scraped |-> {progress_file.scraped[k].cite_id :
                                            k \in 1..Len(progress_file.scraped)},
                           failed |-> progress_file.failed]
          /\ g_todo' = {progress_file.failed[k].cite_id :
                             k \in 1..Len(progress_file.failed)}
          /\ pc' = "loop"
          /\ UNCHANGED <<script, exit_status, i, resume, htmlVars, batchVars,
                         slowVars, embedVars, g_fetched, g_failures, g_abandoned>>
    /\ UNCHANGED <<netVars, prog, runs, urls, progress_file, storeVars, g_persisted>>

\* The entry main appends to still_failed: error_msg of download_statute.
StillFailed(c) == FailedEntry(c, "Failed after 3 attempts", TRUE)

\* One iteration of the retry loop: download_statute, then newly_successful or
\* still_failed.
RetryItem ==
    /\ script = "retry" /\ pc = "loop" /\ i < Len(progress.failed)
    /\ LET c == progress.failed[i + 1].cite_id IN
       \/ \* success: the HTML is saved, a dict is appended to newly_successful
          /\ newly_successful' = Append(newly_successful, DictEntry(c))
          /\ g_recorded' = g_recorded \cup {c}
          /\ g_fetched' = g_fetched \cup {c}
          /\ UNCHANGED <<still_failed, g_failures>>
       \/ \* still failed after max_retries attempts
          /\ still_failed' = Append(still_failed, StillFailed(c))
          /\ g_fetched' = g_fetched \cup {c}
          /\ g_failures' = g_failures \cup {<<c, "RequestException">>}
          /\ UNCHANGED <<newly_successful, g_recorded>>
    /\ i' = i + 1
    /\ UNCHANGED <<netVars, prog, script, pc, resume, runs, exit_status, urls, progress_file,
                   progress, htmlVars, batchVars, slowVars, embedVars, storeVars,
                   g_persisted, g_loaded, g_todo, g_abandoned>>

\* An assignment in place of the extend.
RetryDownloaded_Replace(p, ns) == ns
\* progress['downloaded'].extend(newly_successful)
RetryDownloaded(p, ns) == p.downloaded \o ns

\* progress['downloaded'].extend(newly_successful);
\* progress['failed'] = still_failed; save_progress(progress).
RetryUpdate ==
    /\ script = "retry" /\ pc = "loop" /\ i = Len(progress.failed)
    /\ progress' = [downloaded |-> RetryDownloaded(progress, newly_successful),
                    failed |-> still_failed]
    /\ pc' = "save_open"
    /\ resume' = "exit"
    /\ UNCHANGED <<netVars, prog, script, runs, exit_status, urls, i, progress_file,
                   newly_successful, still_failed, htmlVars, batchVars, slowVars,
                   embedVars, storeVars, ghostVars>>


\* --------------------------------------------- BatchCaseScraper (batch)
StartBatch == prog = "batch" /\ StartRun("batch")

\* What load_progress leaves in scraped_cite_ids and failed_cite_ids: the file's
\* lists, or nothing when the file is missing or json.load raised (the except
\* prints a warning and goes on).
BatchLoadedScraped ==
    IF progress_file.state = "ok" THEN ListToSet(progress_file.scraped) ELSE {}
BatchLoadedFailed ==
    IF progress_file.state = "ok" THEN progress_file.failed ELSE <<>>

\* __init__ (load_progress) and the head of scrape_court_cases.
BatchLoadProgress ==
    /\ script = "batch" /\ pc = "load"
    /\ \/ \* "[SKIP] All cases already scraped": return
          /\ Remaining(urls, BatchLoadedScraped) = <<>>
          /\ EndRun("done", g_fetched)
       \/ /\ Remaining(urls, BatchLoadedScraped) # <<>>
          /\ scraped_cite_ids' = BatchLoadedScraped
          /\ failed_cite_ids' = BatchLoadedFailed
          /\ remaining_cite_ids' = Remaining(urls, BatchLoadedScraped)
          /\ batch' = <<>>
          /\ g_recorded' = IF progress_file.state = "ok" THEN g_persisted ELSE {}
          /\ g_loaded' = [scraped |-> BatchLoadedScraped, failed |-> BatchLoadedFailed]
          /\ g_todo' = Range(remaining_cite_ids')
          /\ pc' = "loop"
          /\ UNCHANGED <<script, exit_status, i, resume, htmlVars, retryVars,
                         slowVars, embedVars, g_fetched, g_failures, g_abandoned>>
    /\ UNCHANGED <<netVars, prog, runs, urls, progress_file, storeVars, g_persisted>>

\* The entries scrape_court_cases appends to failed_cite_ids.
BatchNoData(c) == FailedEntry(c, "No data returned", FALSE)
BatchError(c, e) == FailedEntry(c, e, FALSE)

\* (i + 1) % 50 == 0: save progress periodically.
BatchSaveDue == (i + 1) % SaveEveryCases = 0

\* One iteration of the loop of scrape_court_cases.  store_batch calls
\* store_cases, which catches the insert's exception itself and returns the
\* count: a failed insert stores nothing and raises nothing.
BatchScrapeOne ==
    /\ script = "batch" /\ pc = "loop" /\ i < Len(remaining_cite_ids)
    /\ LET c == remaining_cite_ids[i + 1] IN
       \/ \* case_data returned
          /\ scraped_cite_ids' = scraped_cite_ids \cup {c}
          /\ g_recorded' = g_recorded \cup {c}
          /\ g_fetched' = g_fetched \cup {c}
          /\ IF Len(batch) + 1 >= batch_size
             THEN /\ batch' = <<>>
                  /\ \E inserted \in BOOLEAN :
                        oklahoma_cases' = IF inserted
                                          THEN oklahoma_cases \cup Range(batch) \cup {c}
                                          ELSE oklahoma_cases
             ELSE /\ batch' = Append(batch, c)
                  /\ UNCHANGED oklahoma_cases
          /\ IF BatchSaveDue
             THEN pc' = "save_open" /\ resume' = "loop"
             ELSE UNCHANGED <<pc, resume>>
          /\ UNCHANGED <<failed_cite_ids, g_failures>>
       \/ \* scrape_case returned None (it caught a RequestException, or the
          \* parser caught its own error)
          /\ c \in FlakyIds
          /\ failed_cite_ids' = Append(failed_cite_ids, BatchNoData(c))
          /\ g_fetched' = g_fetched \cup {c}
          /\ g_failures' = g_failures \cup {<<c, "RequestException">>}
          /\ IF BatchSaveDue
             THEN pc' = "save_open" /\ resume' = "loop"
             ELSE UNCHANGED <<pc, resume>>
          /\ UNCHANGED <<scraped_cite_ids, batch, oklahoma_cases, g_recorded>>
       \/ \* any other exception: the except of the loop, which skips the save
          /\ c \in FlakyIds
          /\ failed_cite_ids' = Append(failed_cite_ids, BatchError(c, "Exception"))
          /\ g_fetched' = g_fetched \cup {c}
          /\ g_failures' = g_failures \cup {<<c, "Exception">>}
          /\ UNCHANGED <<scraped_cite_ids, batch, oklahoma_cases, g_recorded,
                         pc, resume>>
    /\ i' = i + 1
    /\ UNCHANGED <<netVars, prog, script, runs, exit_status, urls, progress_file,
                   remaining_cite_ids, htmlVars, retryVars, slowVars, embedVars,
                   statute_html, case_law_index, g_persisted, g_loaded, g_todo,
                   g_abandoned>>

\* After the loop: store the remaining batch, then save_progress().
BatchFinish ==
    /\ script = "batch" /\ pc = "loop" /\ i = Len(remaining_cite_ids)
    /\ IF batch # <<>>
       THEN \E inserted \in BOOLEAN :
               oklahoma_cases' = IF inserted THEN oklahoma_cases \cup Range(batch)
                                 ELSE oklahoma_cases
       ELSE UNCHANGED oklahoma_cases
    /\ batch' = <<>>
    /\ pc' = "save_open"
    /\ resume' = "exit"
    /\ UNCHANGED <<netVars, prog, script, runs, exit_status, urls, i, progress_file,
                   scraped_cite_ids, failed_cite_ids, remaining_cite_ids, htmlVars,
                   retryVars, slowVars, embedVars, statute_html, case_law_index,
                   ghostVars>>

\* ------------------------------------------ SlowStatuteDownloader (slow)
StartSlow == prog = "slow" /\ StartRun("slow")

\* load_progress: set(data.get('downloaded', [])), or set() when the file is
\* missing or anything raised (bare except).
SlowLoaded ==
    IF progress_file.state = "ok" /\ Hashable(progress_file.scraped)
    THEN ListToSet(progress_file.scraped) ELSE {}

\* __init__ (load_progress) and the head of download_from_url_list.
SlowLoadProgress ==
    /\ script = "slow" /\ pc = "load"
    /\ downloaded' = SlowLoaded
    /\ g_recorded' = IF progress_file.state = "ok" THEN g_persisted ELSE {}
    /\ g_loaded' = [scraped |-> SlowLoaded, failed |-> <<>>]
    /\ g_todo' = Range(Remaining(urls, SlowLoaded))
    /\ pc' = "loop"
    /\ UNCHANGED <<netVars, prog, script, resume, runs, exit_status, urls, i, progress_file,
                   htmlVars, retryVars, batchVars, embedVars, storeVars,
                   g_persisted, g_fetched, g_failures, g_abandoned>>

\* One iteration of the loop of download_from_url_list: download_statute, then
\* "save progress every 10 downloads" (i % 10 == 0, i counted from 1).
SlowDownloadStatute ==
    /\ script = "slow" /\ pc = "loop" /\ i < Len(urls)
    /\ LET c == urls[i + 1] IN
       \/ \* "[SKIP] already downloaded"
          /\ c \in downloaded
          /\ UNCHANGED <<downloaded, statute_html, g_recorded, g_fetched, g_failures>>
       \/ \* "[SKIP] file exists"
          /\ c \notin downloaded
          /\ c \in statute_html
          /\ downloaded' = downloaded \cup {c}
          /\ g_recorded' = g_recorded \cup {c}
          /\ UNCHANGED <<statute_html, g_fetched, g_failures>>
       \/ \* time.sleep(delay); GET; write the HTML; mark as downloaded
          /\ c \notin downloaded
          /\ c \notin statute_html
          /\ statute_html' = statute_html \cup {c}
          /\ downloaded' = downloaded \cup {c}
          /\ g_recorded' = g_recorded \cup {c}
          /\ g_fetched' = g_fetched \cup {c}
          /\ UNCHANGED g_failures
       \/ \* requests.exceptions.RequestException: print and return False
          /\ c \notin downloaded
          /\ c \notin statute_html
          /\ c \in FlakyIds
          /\ g_fetched' = g_fetched \cup {c}
          /\ g_failures' = g_failures \cup {<<c, "RequestException">>}
          /\ UNCHANGED <<downloaded, statute_html, g_recorded>>
    /\ IF (i + 1) % SaveEveryDownloads = 0
       THEN pc' = "save_open" /\ resume' = "loop"
       ELSE UNCHANGED <<pc, resume>>
    /\ i' = i + 1
    /\ UNCHANGED <<netVars, prog, script, runs, exit_status, urls, progress_file, htmlVars,
                   retryVars, batchVars, embedVars, oklahoma_cases, case_law_index,
                   g_persisted, g_loaded, g_todo, g_abandoned>>

\* After the loop: the final save_progress().
SlowFinalSave ==
    /\ script = "slow" /\ pc = "loop" /\ i = Len(urls)
    /\ pc' = "save_open"
    /\ resume' = "exit"
    /\ UNCHANGED <<netVars, prog, script, runs, exit_status, urls, i, progress_file,
                   memVars, storeVars, ghostVars>>

\* ------------------------- process_cases, generate_case_law_embeddings (embed)
StartEmbed == prog = "embed" /\ StartRun("embed")

\* load_progress: the file's JSON, or the default when the file is missing or
\* unreadable (except: pass).
EmbedLoaded ==
    IF progress_file.state = "ok" THEN progress_file.scraped ELSE <<>>

\* main's load_progress() and the head of process_cases.
EmbedLoadProgress ==
    /\ script = "embed" /\ pc = "load"
    /\ \/ \* "[SKIP] All cases already processed": return
          /\ Remaining(urls, ListToSet(EmbedLoaded)) = <<>>
          /\ EndRun("done", g_fetched)
       \/ /\ Remaining(urls, ListToSet(EmbedLoaded)) # <<>>
          /\ cases_processed' = EmbedLoaded
          /\ cases_to_process' = Remaining(urls, ListToSet(EmbedLoaded))
          /\ g_recorded' = IF progress_file.state = "ok" THEN g_persisted ELSE {}
          /\ g_loaded' = [scraped |-> ListToSet(EmbedLoaded), failed |-> <<>>]
          /\ g_todo' = Range(cases_to_process')
          /\ pc' = "loop"
          /\ UNCHANGED <<script, exit_status, i, resume, htmlVars, retryVars,
                         batchVars, slowVars, g_fetched, g_failures, g_abandoned>>
    /\ UNCHANGED <<netVars, prog, runs, urls, progress_file, storeVars, g_persisted>>

\* cases_to_process[batch_idx:batch_idx + BATCH_SIZE]
EmbedBatchOf(list, idx) ==
    SubSeq(list, idx + 1, IF idx + BATCH_SIZE < Len(list) THEN idx + BATCH_SIZE
                          ELSE Len(list))

\* One batch of process_cases: embeddings, upsert, progress, save_progress.
\* generate_embeddings and the upsert loop print the error and re-raise it;
\* nothing above them catches it.
EmbedBatch ==
    /\ script = "embed" /\ pc = "loop" /\ i < Len(cases_to_process)
    /\ LET b == EmbedBatchOf(cases_to_process, i) IN
       \/ \* embedded and upserted: record the batch and save
          /\ case_law_index' = case_law_index \cup Range(b)
          /\ cases_processed' = cases_processed \o [k \in 1..Len(b) |-> IdEntry(b[k])]
          /\ g_recorded' = g_recorded \cup Range(b)
          /\ g_fetched' = g_fetched \cup Range(b)
          /\ i' = i + BATCH_SIZE
          /\ pc' = "save_open"
          /\ resume' = "loop"
          /\ UNCHANGED <<script, exit_status, htmlVars, retryVars, batchVars,
                         slowVars, cases_to_process, g_loaded, g_todo, g_failures,
                         g_abandoned>>
       \/ \* openai embeddings.create raised: re-raised, the script dies
          /\ Range(b) \cap FlakyIds # {}
          /\ EndRun("crashed", g_fetched \cup Range(b))
          /\ UNCHANGED case_law_index
       \/ \* index.upsert raised: re-raised, the script dies
          /\ Range(b) \cap FlakyIds # {}
          /\ EndRun("crashed", g_fetched \cup Range(b))
          /\ UNCHANGED case_law_index
    /\ UNCHANGED <<netVars, prog, runs, urls, progress_file, oklahoma_cases, statute_html,
                   g_persisted>>

\* The loop is over: "[DONE] Processed ..." and return.
EmbedDone ==
    /\ script = "embed" /\ pc = "loop" /\ i >= Len(cases_to_process)
    /\ EndRun("done", g_fetched)
    /\ UNCHANGED <<netVars, prog, runs, urls, progress_file, storeVars, g_persisted>>

\* ------------------------------------------------------------ save_progress
\* What json.dump writes, per script.
SaveContents ==
    CASE script = "html"  -> OkFile(SetToList(downloaded_ids), failed_ids)
      [] script = "retry" -> OkFile(progress.downloaded, progress.failed)
      [] script = "batch" -> OkFile(SetToList(scraped_cite_ids), failed_cite_ids)
      [] script = "slow"  -> OkFile(SetToList(downloaded), <<>>)
      [] script = "embed" -> OkFile(cases_processed, <<>>)

\* with open(progress_file, 'w') as f: the file is truncated.
SaveOpen ==
    /\ script # "none" /\ pc = "save_open"
    /\ progress_file' = PartialFile
    /\ pc' = "save_dump"
    /\ UNCHANGED <<netVars, prog, script, resume, runs, exit_status, urls, i, memVars,
                   storeVars, ghostVars>>

\* json.dump(progress, f, indent=2) and the close of the file.
SaveDump ==
    /\ script # "none" /\ pc = "save_dump"
    /\ progress_file' = SaveContents
    /\ g_persisted' = g_recorded
    /\ \/ /\ resume = "loop"
          /\ pc' = "loop"
          /\ UNCHANGED <<script, exit_status, resume, i, memVars, g_recorded,
                         runGhosts, g_abandoned>>
       \/ \* the job returns; every item of its work list was fetched or found done
          /\ resume = "exit"
          /\ EndRun("done", g_fetched \cup g_recorded)
    /\ UNCHANGED <<netVars, prog, runs, urls, storeVars>>

\* KeyboardInterrupt (or a kill) at the current position: the process ends and
\* its memory is gone; the disk stays as it is.
Interrupt ==
    /\ script # "none"
    /\ EndRun("interrupted", g_fetched)
    /\ UNCHANGED <<netVars, prog, runs, urls, progress_file, storeVars, g_persisted>>

Next ==
    \/ StartHtml \/ HtmlLoadProgress \/ HtmlDownloadHtml \/ HtmlFinalSave
    \/ StartRetry \/ RetryLoad \/ RetryItem \/ RetryUpdate
    \/ StartBatch \/ BatchLoadProgress \/ BatchScrapeOne \/ BatchFinish
    \/ StartSlow \/ SlowLoadProgress \/ SlowDownloadStatute \/ SlowFinalSave
    \/ StartEmbed \/ EmbedLoadProgress \/ EmbedBatch \/ EmbedDone
    \/ SaveOpen \/ SaveDump \/ Interrupt

Spec == Init /\ [][Next]_vars

\* ------------------------------------------------------- fetch functions
\* download_statute (retry_failed_statutes.py), get_constitution_with_retry
\* (cloudflare_bypass_scraper.py) and scrape_case (case_law_scraper.py), each
\* followed through one call, and the request of download_html
\* (html_downloader.py).  scrape_case and download_html take no max_retries:
\* they send one request.
Fetchers == {"download_statute", "get_constitution_with_retry", "scrape_case",
             "download_html"}

\* The bodies a response with status 200 can carry: the document, or the
\* anti-bot challenge page of the site's proxy.
Bodies == {"page", "challenge"}

InitFetch ==
    /\ JobsInit({"none"})
    /\ TextIdle
    /\ CrawlIdle
    /\ StoreIdle
    /\ WebIdle
    /\ CacheIdle
    /\ fetcher \in Fetchers
    /\ max_retries \in IF fetcher \in {"scrape_case", "download_html"}
                        THEN {1} ELSE 1..MaxRetries
    /\ fpc = "attempt"
    /\ attempt = 0
    /\ attempts_made = 0
    /\ delays = <<>>
    /\ fetch_result = "none"
    /\ last_response = "none"

\* A constant sleep between attempts.
Backoff_Constant(a) == 2
\* time.sleep(2 ** attempt)  # Exponential backoff
Backoff(a) == 2 ^ a

\* One pass of the retry loop of download_statute.
DownloadStatuteAttempt ==
    /\ fetcher = "download_statute" /\ fpc = "attempt" /\ attempt < max_retries
    /\ attempts_made' = attempts_made + 1
    /\ \/ \* status 200, whatever the body: return True, response.text, None
          /\ last_response' \in Bodies
          /\ fetch_result' = "ok"
          /\ fpc' = "done"
          /\ UNCHANGED <<attempt, delays>>
       \/ \* another status, Timeout or any Exception: sleep unless last attempt
          /\ last_response' \in {"refused", "failure"}
          /\ delays' = IF attempt < max_retries - 1
                       THEN Append(delays, Backoff(attempt)) ELSE delays
          /\ attempt' = attempt + 1
          /\ UNCHANGED <<fetch_result, fpc>>
    /\ UNCHANGED <<notFetch, fetcher, max_retries>>

\* The loop is exhausted: return False, None, "Failed after N attempts".
DownloadStatuteFailed ==
    /\ fetcher = "download_statute" /\ fpc = "attempt" /\ attempt = max_retries
    /\ fetch_result' = "error"
    /\ fpc' = "done"
    /\ UNCHANGED <<notFetch, fetcher, max_retries, attempt, attempts_made,
                   delays, last_response>>

\* human_delay: random.uniform(min_seconds, max_seconds), in whole seconds.
HumanDelay(min_seconds, max_seconds) == min_seconds..max_seconds

\* One pass of the retry loop of get_constitution_with_retry.
CloudflareAttempt ==
    /\ fetcher = "get_constitution_with_retry" /\ fpc = "attempt"
    /\ attempt < max_retries
    /\ IF attempt > 0
       THEN \E d \in HumanDelay(5, 10) : delays' = Append(delays, d)
       ELSE UNCHANGED delays
    /\ attempts_made' = attempts_made + 1
    /\ \/ \* status 200 without challenge: parse and return
          /\ last_response' = "page"
          /\ fetch_result' = "ok"
          /\ fpc' = "done"
          /\ UNCHANGED attempt
       \/ \* Cloudflare challenge, 403 or 503: return None on the last attempt
          /\ last_response' \in {"challenge", "refused"}
          /\ IF attempt = max_retries - 1
             THEN fetch_result' = "error" /\ fpc' = "done" /\ UNCHANGED attempt
             ELSE attempt' = attempt + 1 /\ UNCHANGED <<fetch_result, fpc>>
       \/ \* another status, Timeout or any Exception: next pass
          /\ last_response' = "failure"
          /\ attempt' = attempt + 1
          /\ UNCHANGED <<fetch_result, fpc>>
    /\ UNCHANGED <<notFetch, fetcher, max_retries>>

\* The loop is exhausted: return None.
CloudflareFailed ==
    /\ fetcher = "get_constitution_with_retry" /\ fpc = "attempt"
    /\ attempt = max_retries
    /\ fetch_result' = "error"
    /\ fpc' = "done"
    /\ UNCHANGED <<notFetch, fetcher, max_retries, attempt, attempts_made,
                   delays, last_response>>

\* scrape_case: one GET; raise_for_status; parse_case, which falls back to
\* "CiteID n" as the citation of a page without one and returns its dict.  A
\* RequestException is caught and None returned.
ScrapeCase ==
    /\ fetcher = "scrape_case" /\ fpc = "attempt"
    /\ attempts_made' = attempts_made + 1
    /\ \/ last_response' \in Bodies /\ fetch_result' = "ok"
       \/ last_response' \in {"refused", "failure"} /\ fetch_result' = "error"
    /\ fpc' = "done"
    /\ UNCHANGED <<notFetch, fetcher, max_retries, attempt, delays>>

\* The request of download_html: GET, raise_for_status, write the body to the
\* HTML file, downloaded_ids.add(cite_id), return True; an exception is
\* appended to failed_ids, return False.
DownloadHtmlRequest ==
    /\ fetcher = "download_html" /\ fpc = "attempt"
    /\ attempts_made' = attempts_made + 1
    /\ \/ last_response' \in Bodies /\ fetch_result' = "ok"
       \/ last_response' \in {"refused", "failure"} /\ fetch_result' = "error"
    /\ fpc' = "done"
    /\ UNCHANGED <<notFetch, fetcher, max_retries, attempt, delays>>

NextFetch ==
    \/ DownloadStatuteAttempt \/ DownloadStatuteFailed
    \/ CloudflareAttempt \/ CloudflareFailed
    \/ ScrapeCase \/ DownloadHtmlRequest

SpecFetch == InitFetch /\ [][NextFetch]_vars

\* ------------------------------------- CaseLawDiscoverer.discover_court_cases
\* self.rate_limit_delay = 2  # seconds between requests; the sleeps of
\* discover_year_cases (0.5 s) and handle_search_pagination (1 s).  Milliseconds.
rate_limit_delay == 2000
LevelDelay == 500
PageDelay == 1000
\* for level in [1, 2, 3, 4, 5]
NumLevels == 5

InitCrawl ==
    /\ JobsInit({"none"})
    /\ TextIdle
    /\ FetchIdle
    /\ StoreIdle
    /\ WebIdle
    /\ CacheIdle
    /\ cpc = "level"
    /\ year = 1
    /\ level = 1
    /\ pages_left = 0
    /\ requests_sent = 0
    /\ waited = 0
    /\ g_wait_before = 0
    /\ all_cite_ids = {}
    /\ cite_ids = <<>>
    /\ pages_fetched = 0
    /\ g_page_links = 0

\* The citeIds the pages of the court link to.  A page is the sequence of
\* the citeIds of its DeliverDocument links; a citeId can be linked twice.
CrawlIds == 1..NumCrawlIds
Pages == UNION {[1..n -> CrawlIds] : n \in 0..MaxLinks}

\* extract_cite_ids: cite_ids = set(); add the citeId of every matching link.
ExtractCiteIds(page) == {page[k] : k \in 1..Len(page)}

\* list(all_cite_ids): the year's set as a list, in some fixed order.
RECURSIVE ListOfSet(_)
ListOfSet(S) ==
    IF S = {} THEN <<>>
    ELSE LET x == CHOOSE y \in S : \A z \in S : y <= z
         IN <<x>> \o ListOfSet(S \ {x})

\* self.session.get(...): a request leaves; what was slept since the last one.
SendRequest ==
    /\ requests_sent' = requests_sent + 1
    /\ g_wait_before' = waited

\* discover_year_cases: the index request of one level.
LevelRequest ==
    /\ cpc = "level"
    /\ SendRequest
    /\ \/ \* extract the citeIds, update the year's set, time.sleep(0.5)
          /\ \E linked \in Pages :
                all_cite_ids' = all_cite_ids \cup ExtractCiteIds(linked)
          /\ waited' = LevelDelay
       \/ \* RequestException: warning, continue
          /\ waited' = 0
          /\ UNCHANGED all_cite_ids
    /\ IF level < NumLevels
       THEN level' = level + 1 /\ UNCHANGED cpc
       ELSE cpc' = "search" /\ UNCHANGED level
    /\ UNCHANGED <<notCrawl, year, pages_left, cite_ids, pages_fetched,
                   g_page_links>>

\* search_by_year_range: the search request.
SearchRequest ==
    /\ cpc = "search"
    /\ SendRequest
    /\ waited' = 0
    /\ pages_fetched' = 0
    /\ \/ \* the result page, its citeIds and its pagination links
          \E n \in 0..MaxPages, linked \in Pages :
             /\ all_cite_ids' = all_cite_ids \cup ExtractCiteIds(linked)
             /\ pages_left' = n
             /\ g_page_links' = n
             /\ cpc' = IF n > 0 THEN "pages" ELSE "year_sleep"
       \/ \* RequestException: "Search failed"
          /\ cpc' = "year_sleep"
          /\ g_page_links' = 0
          /\ UNCHANGED <<pages_left, all_cite_ids>>
    /\ UNCHANGED <<notCrawl, year, level, cite_ids>>

\* The links of the first result page that are still to be requested, after
\* one of them has been: the loop runs over the links of that page only.
RestOfLinks_Refollow(n) == n
RestOfLinks(n) == n - 1

\* handle_search_pagination: the request of one pagination link.
PageRequest ==
    /\ cpc = "pages" /\ pages_left > 0
    /\ SendRequest
    /\ pages_fetched' = pages_fetched + 1
    /\ \/ \* extract the citeIds, time.sleep(1)
          /\ \E linked \in Pages :
                all_cite_ids' = all_cite_ids \cup ExtractCiteIds(linked)
          /\ waited' = PageDelay
       \/ \* bare except: continue
          /\ waited' = 0
          /\ UNCHANGED all_cite_ids
    /\ pages_left' = RestOfLinks(pages_left)
    /\ cpc' = IF pages_left' = 0 THEN "year_sleep" ELSE "pages"
    /\ UNCHANGED <<notCrawl, year, level, cite_ids, g_page_links>>

\* discover_court_cases: cite_ids.extend(year_cite_ids), then
\* time.sleep(self.rate_limit_delay), after each year.
YearSleep ==
    /\ cpc = "year_sleep"
    /\ cite_ids' = cite_ids \o ListOfSet(all_cite_ids)
    /\ all_cite_ids' = {}
    /\ waited' = waited + rate_limit_delay
    /\ IF year < NumYears
       THEN year' = year + 1 /\ level' = 1 /\ cpc' = "level"
       ELSE cpc' = "done" /\ UNCHANGED <<year, level>>
    /\ UNCHANGED <<notCrawl, pages_left, requests_sent, g_wait_before,
                   pages_fetched, g_page_links>>

NextCrawl == LevelRequest \/ SearchRequest \/ PageRequest \/ YearSleep

SpecCrawl == InitCrawl /\ [][NextCrawl]_vars

(***************************************************************************)
(* The storage writers: StatutesDatabase.insert_statute and its callers,   *)
(* the HTML uploader, the unified statute processor and the manual         *)
(* constitution workflow, against the table statutes, its child tables and *)
(* the statute vector index.  The schema is not part of the source: the    *)
(* store either enforces one row per cite_id or does not.                  *)
(***************************************************************************)
StatuteIds == 1..NumStatutes

\* The child tables, in the order insert_statute fills them.
ChildTables == <<"statute_paragraphs", "statute_definitions", "legislative_history",
                 "statute_citations", "superseded_documents">>
NumChildTables == Len(ChildTables)

\* The two tables _update_related_tables clears and refills.
RelatedTables == {k \in 1..NumChildTables :
                    ChildTables[k] \in {"statute_paragraphs", "statute_definitions"}}

\* A writer whose child inserts store nothing.
ChildRows_None(statute_id, tables, version) == {}
\* The rows one parse contributes to the given child tables.
ChildRows(statute_id, tables, version) ==
    {[statute_id |-> statute_id, table |-> ChildTables[k], version |-> version] :
        k \in tables}

\* select ... eq('cite_id', cite_id)
RowsOf(c) == {r \in statutes : r.cite_id = c}

statute_exists(c) == RowsOf(c) # {}

NoWrite ==
    [op |-> "none", cite_ids |-> {}, version |-> 0, existed |-> FALSE,
     success |-> FALSE, cause |-> "none", action |-> "none", statute_id |-> 0]

Written(op, cs, v, existed, success, cause, action, id) ==
    [op |-> op, cite_ids |-> cs, version |-> v, existed |-> existed,
     success |-> success, cause |-> cause, action |-> action, statute_id |-> id]

InitStore ==
    /\ JobsInit({"none"})
    /\ TextIdle
    /\ FetchIdle
    /\ CrawlIdle
    /\ WebIdle
    /\ CacheIdle
    /\ cite_id_unique \in BOOLEAN
    /\ statutes = {}
    /\ child_rows = {}
    /\ vectors = [c \in StatuteIds |-> 0]
    /\ next_id = 0
    /\ writes = 0
    /\ uploaded = {}
    /\ last_write = NoWrite
    /\ g_child_failed = {}
    /\ g_force_update = FALSE

\* The table statutes once insert_statute has returned: the except branch
\* logs and returns, it deletes nothing.
StatutesAfterInsert_Rollback(rows, row, children_ok) ==
    IF children_ok THEN rows \cup {row} ELSE rows
StatutesAfterInsert(rows, row, children_ok) == rows \cup {row}

\* StatutesDatabase.insert_statute for parse version v of citeId c: the main
\* row, then the child tables in order; the first insert that raises ends
\* the call in the except branch.
insert_statute(op, c, v) ==
    LET conflict == cite_id_unique /\ statute_exists(c)
        row      == [id |-> next_id + 1, cite_id |-> c, version |-> v]
        existed  == statute_exists(c)
    IN  \/ /\ conflict
           /\ last_write' = Written(op, {c}, v, existed, FALSE, "duplicate_key", "none", 0)
           /\ UNCHANGED <<statutes, child_rows, next_id, g_child_failed>>
        \/ /\ ~conflict
           /\ last_write' = Written(op, {c}, v, existed, FALSE, "transient", "none", 0)
           /\ UNCHANGED <<statutes, child_rows, next_id, g_child_failed>>
        \/ /\ ~conflict
           /\ \E k \in 0..NumChildTables :
                LET ok == k = NumChildTables
                IN  /\ statutes' = StatutesAfterInsert(statutes, row, ok)
                    /\ child_rows' = child_rows \cup ChildRows(row.id, 1..k, v)
                    /\ last_write' = Written(op, {c}, v, existed, ok,
                                             IF ok THEN "none" ELSE "child",
                                             IF ok THEN "inserted" ELSE "none", row.id)
                    /\ g_child_failed' = IF ok THEN g_child_failed
                                         ELSE g_child_failed \cup {c}
           /\ next_id' = next_id + 1

\* IntegratedStatutesScraper.scrape_and_store_statute
ScrapeAndStoreStatute ==
    /\ writes < MaxStoreWrites
    /\ writes' = writes + 1
    /\ \E c \in StatuteIds, force_update \in BOOLEAN :
         /\ g_force_update' = force_update
         /\ \/ /\ ~force_update
               /\ statute_exists(c)
               /\ last_write' = Written("scrape_and_store_statute", {c}, writes + 1, TRUE,
                                        TRUE, "none", "skipped", 0)
               /\ UNCHANGED <<statutes, child_rows, next_id, g_child_failed>>
            \/ /\ force_update \/ ~statute_exists(c)
               /\ last_write' = Written("scrape_and_store_statute", {c}, writes + 1,
                                        statute_exists(c), FALSE, "scrape", "none", 0)
               /\ UNCHANGED <<statutes, child_rows, next_id, g_child_failed>>
            \/ /\ force_update \/ ~statute_exists(c)
               /\ insert_statute("scrape_and_store_statute", c, writes + 1)
    /\ UNCHANGED <<notStore, cite_id_unique, vectors, uploaded>>

\* ManualConstitutionProcessor.update_database_record with
\* _update_related_tables: an existing row is updated in place, two of the
\* child tables are cleared and refilled, and an error there is a warning.
UpdateDatabaseRecord ==
    /\ writes < MaxStoreWrites
    /\ writes' = writes + 1
    /\ \E c \in StatuteIds :
         \* get_statute returns None when no row matches and when it fails
         \/ insert_statute("update_database_record", c, writes + 1)
         \/ /\ statute_exists(c)
            /\ last_write' = Written("update_database_record", {c}, writes + 1, TRUE,
                                     FALSE, "transient", "none", 0)
            /\ UNCHANGED <<statutes, child_rows, next_id, g_child_failed>>
         \/ \E existing \in RowsOf(c) :
              \E deleted \in SUBSET RelatedTables, inserted \in SUBSET RelatedTables :
                 /\ \A k \in deleted : \A j \in RelatedTables : j < k => j \in deleted
                 /\ \A k \in inserted : \A j \in RelatedTables : j < k => j \in inserted
                 /\ inserted # {} => deleted = RelatedTables
                 /\ statutes' = (statutes \ {existing})
                                  \cup {[existing EXCEPT !.version = writes + 1]}
                 /\ child_rows' =
                      {ch \in child_rows :
                         ~(ch.statute_id = existing.id
                           /\ \E k \in deleted : ch.table = ChildTables[k])}
                      \cup ChildRows(existing.id, inserted, writes + 1)
                 /\ last_write' = Written("update_database_record", {c}, writes + 1, TRUE,
                                          TRUE,
                                          IF inserted = RelatedTables
                                             THEN "none" ELSE "related_warning",
                                          "updated", existing.id)
                 /\ UNCHANGED <<next_id, g_child_failed>>
    /\ UNCHANGED <<notStore, cite_id_unique, vectors, uploaded, g_force_update>>

\* SupabaseUploader.upload_file: the main record alone, by upsert, unless the
\* progress file lists the citeId.
UploadFile ==
    /\ writes < MaxStoreWrites
    /\ writes' = writes + 1
    /\ \E c \in StatuteIds :
         LET v == writes + 1
             existed == statute_exists(c)
         IN  \/ /\ c \in uploaded
                /\ last_write' = Written("upload_file", {c}, v, existed, TRUE, "none",
                                         "skipped", 0)
                /\ UNCHANGED <<statutes, next_id, uploaded>>
             \/ /\ c \notin uploaded
                /\ last_write' = Written("upload_file", {c}, v, existed, FALSE,
                                         IF cite_id_unique /\ existed
                                            THEN "duplicate_key" ELSE "transient",
                                         "none", 0)
                /\ UNCHANGED <<statutes, next_id, uploaded>>
             \/ /\ c \notin uploaded
                /\ cite_id_unique /\ existed
                /\ statutes' = {IF r.cite_id = c THEN [r EXCEPT !.version = v] ELSE r :
                                  r \in statutes}
                /\ last_write' = Written("upload_file", {c}, v, existed, TRUE, "none",
                                         "upserted", 0)
                /\ uploaded' = uploaded \cup {c}
                /\ UNCHANGED next_id
             \/ /\ c \notin uploaded
                /\ ~(cite_id_unique /\ existed)
                /\ statutes' = statutes \cup {[id |-> next_id + 1, cite_id |-> c,
                                               version |-> v]}
                /\ next_id' = next_id + 1
                /\ last_write' = Written("upload_file", {c}, v, existed, TRUE, "none",
                                         "upserted", next_id + 1)
                /\ uploaded' = uploaded \cup {c}
    /\ UNCHANGED <<notStore, cite_id_unique, child_rows, vectors, g_child_failed,
                   g_force_update>>

\* the rows a batch insert adds: one per record, with consecutive keys
RECURSIVE BatchRows(_, _, _)
BatchRows(cs, id, v) ==
    IF cs = {} THEN {}
    ELSE LET c == CHOOSE x \in cs : \A y \in cs : x <= y
         IN  {[id |-> id + 1, cite_id |-> c, version |-> v]}
               \cup BatchRows(cs \ {c}, id + 1, v)

\* UnifiedStatuteProcessor.upload_to_supabase: one insert of the whole batch
UploadToSupabase ==
    /\ writes < MaxStoreWrites
    /\ writes' = writes + 1
    /\ \E records \in SUBSET StatuteIds \ {{}} :
         LET v == writes + 1
             existed == \E c \in records : statute_exists(c)
             conflict == cite_id_unique /\ existed
         IN  \/ /\ last_write' = Written("upload_to_supabase", records, v, existed, FALSE,
                                         IF conflict THEN "duplicate_key" ELSE "transient",
                                         "none", 0)
                /\ UNCHANGED <<statutes, next_id>>
             \/ /\ ~conflict
                /\ statutes' = statutes \cup BatchRows(records, next_id, v)
                /\ next_id' = next_id + Cardinality(records)
                /\ last_write' = Written("upload_to_supabase", records, v, existed, TRUE,
                                         "none", "inserted", 0)
    /\ UNCHANGED <<notStore, cite_id_unique, child_rows, vectors, uploaded,
                   g_child_failed, g_force_update>>

\* UnifiedStatuteProcessor.upload_to_pinecone: upsert under the id
\* statute_<cite_id>
UploadToPinecone ==
    /\ writes < MaxStoreWrites
    /\ writes' = writes + 1
    /\ \E records \in SUBSET StatuteIds \ {{}} :
         LET v == writes + 1
             existed == \E c \in records : vectors[c] # 0
         IN  \/ /\ last_write' = Written("upload_to_pinecone", records, v, existed, FALSE,
                                         "transient", "none", 0)
                /\ UNCHANGED vectors
             \/ /\ vectors' = [c \in StatuteIds |->
                                 IF c \in records THEN v ELSE vectors[c]]
                /\ last_write' = Written("upload_to_pinecone", records, v, existed, TRUE,
                                         "none", "upserted", 0)
    /\ UNCHANGED <<notStore, cite_id_unique, statutes, child_rows, next_id, uploaded,
                   g_child_failed, g_force_update>>

NextStore ==
    \/ ScrapeAndStoreStatute
    \/ UpdateDatabaseRecord
    \/ UploadFile
    \/ UploadToSupabase
    \/ UploadToPinecone

SpecStore == InitStore /\ [][NextStore]_vars

(***************************************************************************)
(* The web layer (app.py): the routes /search, /ask, /diagnose and the     *)
(* feedback routes, one request at a time, with the retrieval of           *)
(* SearchSystem.search and of ConstitutionRAG behind them.                 *)
(***************************************************************************)
PartitionOrder == <<"constitution", "statutes", "case_law", "ag_opinions">>
Partitions == Range(PartitionOrder)

Ord(p) == CHOOSE k \in 1..Len(PartitionOrder) : PartitionOrder[k] = p

allowed_sources == {"constitution", "statutes", "cases", "ag_opinions", "both", "all"}

\* the source a request may name: an allowed one, or anything else
RequestedSources == allowed_sources \cup {"other"}

\* search(): "if source not in allowed_sources: source = 'all'"
ValidSource(src) == IF src \in allowed_sources THEN src ELSE "all"

RagModules == {"rag_search", "oklahoma_legal.rag_search"}

\* The partitions SearchSystem.search queries for a source: the four
\* "if source in [...]" tests, the last two also asking for the handle.
QueriedBySearch(source, conn) ==
    {p \in Partitions :
        \/ p = "constitution" /\ source \in {"constitution", "both"}
        \/ p = "statutes" /\ source \in {"statutes", "both"}
        \/ p = "case_law" /\ source \in {"cases", "both", "all"} /\ p \in conn
        \/ p = "ag_opinions" /\ source \in {"ag_opinions", "both", "all"} /\ p \in conn}

\* The partitions ConstitutionRAG.search_relevant_sections queries.
QueriedByRag(module) ==
    IF module = "rag_search" THEN {"constitution"}
    ELSE {"constitution", "statutes", "case_law"}

\* The partitions a source selection covers, after the docstring of
\* SearchSystem.search.
Covered(source) ==
    CASE source = "constitution" -> {"constitution"}
      [] source = "statutes"     -> {"statutes"}
      [] source = "cases"        -> {"case_law"}
      [] source = "ag_opinions"  -> {"ag_opinions"}
      [] source = "both"         -> {"constitution", "statutes"}
      [] OTHER                   -> Partitions

\* The queries issued when the query of partition raising raises: the
\* partitions are queried in order and the exception ends the search.
Issued(toQuery, raising) ==
    {p \in toQuery : \A q \in toQuery : Ord(q) < Ord(p) => q # raising}

Req(route, source, searched, queried, internal_error, no_documents, completion_failed) ==
    [route |-> route, source |-> source, searched |-> searched, queried |-> queried,
     internal_error |-> internal_error, no_documents |-> no_documents,
     completion_failed |-> completion_failed]

Resp(status, kind, text, detail) ==
    [status |-> status, kind |-> kind, text |-> text, detail |-> detail]

NoResults == Resp(404, "error", "No results found. Please try a different query.", {})
UnableToGenerate == Resp(500, "error", "Unable to generate answer. Please try again.", {})

InitWeb ==
    /\ JobsInit({"none"})
    /\ TextIdle
    /\ FetchIdle
    /\ CrawlIdle
    /\ StoreIdle
    /\ CacheIdle
    /\ rag_module \in RagModules
    /\ connected \in {conn \in SUBSET Partitions : {"constitution", "statutes"} \subseteq conn}
    /\ web_req = Req("none", "none", FALSE, {}, FALSE, FALSE, FALSE)
    /\ response = Resp(0, "none", "none", {})

\* POST /search with SearchSystem.search
Search ==
    /\ \/ /\ web_req' = Req("search", "none", FALSE, {}, FALSE, FALSE, FALSE)
          /\ response' \in {Resp(400, "error", "Invalid request", {}),
                            Resp(400, "error", "Please enter a search query", {})}
       \/ /\ web_req' = Req("search", "none", FALSE, {}, TRUE, FALSE, FALSE)
          /\ response' = Resp(500, "error", "Search failed. Please try again.", {})
       \/ \E src \in RequestedSources :
            LET source  == ValidSource(src)
                toQuery == QueriedBySearch(source, connected)
            IN  \/ \* initialize fails, or no embedding
                   /\ web_req' = Req("search", source, FALSE, {}, FALSE, TRUE, FALSE)
                   /\ response' = NoResults
                \/ \* create_embeddings raises
                   /\ web_req' = Req("search", source, FALSE, {}, TRUE, TRUE, FALSE)
                   /\ response' = NoResults
                \/ \E raising \in toQuery :
                     /\ web_req' = Req("search", source, FALSE, Issued(toQuery, raising),
                                       TRUE, TRUE, FALSE)
                     /\ response' = NoResults
                \/ \E hits \in SUBSET toQuery :
                     /\ web_req' = Req("search", source, TRUE, toQuery, FALSE,
                                       hits = {}, FALSE)
                     /\ response' = IF hits = {} THEN NoResults
                                    ELSE Resp(200, "results", "results", {})
    /\ UNCHANGED <<notWeb, rag_module, connected>>

\* ConstitutionRAG.generate_answer when the completion call raises: the
\* result it hands to ask_question, as (has the key 'error', answer text,
\* detail in the answer).
GenerateAnswerFailed(module, e) ==
    IF module = "rag_search"
    THEN [error |-> FALSE, answer |-> "Error generating answer: <str(e)>",
          detail |-> {"exception_text"}]
    ELSE IF e = "context_length_exceeded"
    THEN [error |-> TRUE, answer |-> "The retrieved legal text is too long to process.",
          detail |-> {}]
    ELSE [error |-> TRUE, answer |-> "Unable to generate answer: <str(e)>",
          detail |-> {"exception_text"}]

\* POST /ask with ConstitutionRAG.ask_question
Ask ==
    /\ \/ /\ web_req' = Req("ask", "none", FALSE, {}, FALSE, FALSE, FALSE)
          /\ response' \in {Resp(400, "error", "Invalid request", {}),
                            Resp(400, "error", "Please enter a question", {})}
       \/ /\ web_req' = Req("ask", "none", FALSE, {}, TRUE, FALSE, FALSE)
          /\ response' = Resp(500, "error",
                              "Unable to process question. Please try again.", {})
       \/ /\ web_req' = Req("ask", "all", FALSE, {}, TRUE, FALSE, FALSE)
          /\ response' = Resp(503, "error", "Service temporarily unavailable", {})
       \/ \* no embedding: no section
          /\ web_req' = Req("ask", "all", FALSE, {}, FALSE, TRUE, FALSE)
          /\ response' = UnableToGenerate
       \/ \* create_embeddings raises
          /\ web_req' = Req("ask", "all", FALSE, {}, TRUE, TRUE, FALSE)
          /\ response' = UnableToGenerate
       \/ \E raising \in QueriedByRag(rag_module) :
            /\ web_req' = Req("ask", "all", FALSE,
                              Issued(QueriedByRag(rag_module), raising), TRUE, TRUE, FALSE)
            /\ response' = UnableToGenerate
       \/ \E hits \in SUBSET QueriedByRag(rag_module) :
            \/ /\ hits = {}
               /\ web_req' = Req("ask", "all", TRUE, QueriedByRag(rag_module),
                                 FALSE, TRUE, FALSE)
               /\ response' = UnableToGenerate
            \/ /\ hits # {}
               /\ web_req' = Req("ask", "all", TRUE, QueriedByRag(rag_module),
                                 FALSE, FALSE, FALSE)
               /\ response' = Resp(200, "answer", "generated", {})
            \/ /\ hits # {}
               /\ \E e \in {"context_length_exceeded", "other"} :
                    LET result == GenerateAnswerFailed(rag_module, e)
                    IN  /\ web_req' = Req("ask", "all", TRUE, QueriedByRag(rag_module),
                                          TRUE, FALSE, TRUE)
                        /\ response' = IF result.error THEN UnableToGenerate
                                       ELSE Resp(200, "answer", result.answer,
                                                 result.detail)
    /\ UNCHANGED <<notWeb, rag_module, connected>>

\* POST /diagnose
Diagnose ==
    /\ \/ \* no JSON body, create_embeddings or the index query raises
          /\ \E queried \in {{}, {"statutes"}} :
               web_req' = Req("diagnose", "statutes", FALSE, queried, TRUE, FALSE, FALSE)
          /\ response' = Resp(500, "error", "<str(e)>", {"exception_text", "traceback"})
       \/ /\ web_req' = Req("diagnose", "statutes", FALSE, {}, TRUE, FALSE, FALSE)
          /\ response' \in {Resp(503, "error", "Service unavailable", {}),
                            Resp(500, "error", "Failed to create embedding", {})}
       \/ /\ web_req' = Req("diagnose", "statutes", TRUE, {"statutes"}, FALSE, FALSE, FALSE)
          /\ response' = Resp(200, "diagnostic", "diagnostic", {"api_key_prefix"})
       \/ \* the relational lookup raises
          /\ web_req' = Req("diagnose", "statutes", TRUE, {"statutes"}, TRUE, FALSE, FALSE)
          /\ response' = Resp(200, "diagnostic", "diagnostic",
                              {"api_key_prefix", "exception_text"})
    /\ UNCHANGED <<notWeb, rag_module, connected>>

\* POST /feedback and POST /general-feedback
SubmitFeedback ==
    /\ \/ /\ web_req' = Req("feedback", "none", FALSE, {}, FALSE, FALSE, FALSE)
          /\ response' \in {Resp(400, "error", "Invalid request", {}),
                            Resp(400, "error", "Missing required field", {}),
                            Resp(400, "error", "Rating must be -1 or 1", {}),
                            Resp(200, "success", "Thank you for your feedback!", {})}
       \/ /\ web_req' = Req("feedback", "none", FALSE, {}, TRUE, FALSE, FALSE)
          /\ response' \in {Resp(503, "error", "Database connection not available", {}),
                            Resp(500, "error", "Failed to submit feedback", {})}
    /\ UNCHANGED <<notWeb, rag_module, connected>>

NextWeb ==
    \/ Search
    \/ Ask
    \/ Diagnose
    \/ SubmitFeedback

SpecWeb == InitWeb /\ [][NextWeb]_vars

(***************************************************************************)
(* The lazily built client caches of the web layer under its concurrent    *)
(* request threads: SearchSystem.initialize, ConstitutionRAG.initialize    *)
(* and get_clerk_jwks.  None of them takes a lock, so the statements of    *)
(* two threads interleave.                                                 *)
(***************************************************************************)
Threads == 1..NumThreads

CacheKinds == {"search_system", "rag_system", "jwks"}

\* The attributes an initialiser assigns, in its order.
CacheSlots(kind) ==
    CASE kind = "search_system" ->
            <<"builder.pinecone_client", "supabase", "constitution_index",
              "statutes_index", "case_law_index", "ag_opinions_index">>
      [] kind = "rag_system" ->
            <<"builder.pinecone_client", "supabase", "builder.index">>
      [] OTHER -> <<"_jwks_cache">>

AllSlots == UNION {Range(CacheSlots(kind)) : kind \in CacheKinds}

\* SearchSystem.initialize goes on when one of these cannot be reached.
OptionalSlots == {"case_law_index", "ag_opinions_index"}

\* The object thread t builds during its current call.
NewClient(t) == (t - 1) * MaxCalls + calls[t]

InitCache ==
    /\ JobsInit({"none"})
    /\ TextIdle
    /\ FetchIdle
    /\ CrawlIdle
    /\ StoreIdle
    /\ WebIdle
    /\ cache_kind \in CacheKinds
    /\ ready = FALSE
    /\ clients = [slot \in AllSlots |-> 0]
    /\ tpc = [t \in Threads |-> 0]
    /\ calls = [t \in Threads |-> 0]
    /\ g_cached = [slot \in AllSlots |-> 0]

\* "if self.ready: return True" / "if _jwks_cache: return _jwks_cache"
EnterInitialize(t) ==
    /\ tpc[t] = 0
    /\ calls[t] < MaxCalls
    /\ calls' = [calls EXCEPT ![t] = @ + 1]
    /\ tpc' = [tpc EXCEPT ![t] = IF ready THEN 0 ELSE 1]
    /\ UNCHANGED <<notCache, cache_kind, ready, clients, g_cached>>

\* One attribute: the client is built and assigned, or building it raises.
BuildClient(t) ==
    /\ tpc[t] \in 1..Len(CacheSlots(cache_kind))
    /\ LET slot     == CacheSlots(cache_kind)[tpc[t]]
           assigned == [clients EXCEPT ![slot] = NewClient(t)]
       IN  \/ /\ clients' = assigned
              /\ IF cache_kind = "jwks"
                 THEN /\ ready' = TRUE
                      /\ g_cached' = IF ready THEN g_cached ELSE assigned
                      /\ tpc' = [tpc EXCEPT ![t] = 0]
                 ELSE /\ tpc' = [tpc EXCEPT ![t] = @ + 1]
                      /\ UNCHANGED <<ready, g_cached>>
           \/ /\ slot \in OptionalSlots
              /\ clients' \in {clients, assigned}
              /\ tpc' = [tpc EXCEPT ![t] = @ + 1]
              /\ UNCHANGED <<ready, g_cached>>
           \/ /\ slot \notin OptionalSlots
              /\ clients' \in
                   IF slot \in {"constitution_index", "statutes_index", "builder.index"}
                   THEN {clients, assigned} ELSE {clients}
              /\ tpc' = [tpc EXCEPT ![t] = 0]
              /\ UNCHANGED <<ready, g_cached>>
    /\ UNCHANGED <<notCache, cache_kind, calls>>

\* "self.ready = True"
SetReady(t) ==
    /\ tpc[t] = Len(CacheSlots(cache_kind)) + 1
    /\ ready' = TRUE
    /\ g_cached' = IF ready THEN g_cached ELSE clients
    /\ tpc' = [tpc EXCEPT ![t] = 0]
    /\ UNCHANGED <<notCache, cache_kind, clients, calls>>

NextCache ==
    \/ \E t \in Threads : EnterInitialize(t)
    \/ \E t \in Threads : BuildClient(t)
    \/ \E t \in Threads : SetReady(t)

SpecCache == InitCache /\ [][NextCache]_vars

\* ---------------------------------------------------------------- parsers
\* html_processor.py: a text shorter than this is "too short".
MinContent == 50
\* oklahoma_document_parser.py: only a <pre> longer than this counts.
PreMin == 100
MaxParses == 2
MaxClock == 2

\* The elements the parsers look for: <pre>, div.main or div#content,
\* div#oscn-content, and the <p> tags together.
Tags == {"pre", "div_main", "oscn_content", "p"}

\* Lengths of the stripped text of an element; 0 stands for an absent element.
TextLens == {0, MinContent - 1, MinContent, PreMin + 1}

\* A file: whether it is valid UTF-8, the text of each element, and the text
\* outside these elements.
HtmlFiles == [utf8 : BOOLEAN, len : [Tags -> TextLens], rest : {0, MinContent}]

\* soup.get_text(): the text of the whole document.
AllText(html) ==
    html.rest + html.len["pre"] + html.len["div_main"] + html.len["oscn_content"]
      + html.len["p"]

\* return None
ParseFailed == [kind |-> "none", has_text |-> FALSE, main_text |-> 0, stamp |-> 0]

\* A record whose text field is filled, written at time now.
ParsedRecord_Stamped(text, now) ==
    [kind |-> "record", has_text |-> TRUE, main_text |-> text + now, stamp |-> now]
\* A record with a text of the given length; stamp is the value of its
\* processed_at / scraped_at field, 0 when the record has no such field.
ParsedRecord(text, now) ==
    [kind |-> "record", has_text |-> TRUE, main_text |-> text, stamp |-> now]

\* StatuteHTMLProcessor.parse_statute_html: the main div, else the paragraphs;
\* None when the file does not decode or the text is too short.
parse_statute_html(html, now) ==
    LET text_content == IF html.len["div_main"] > 0 THEN html.len["div_main"]
                        ELSE html.len["p"]
    IN  IF ~html.utf8 THEN ParseFailed
        ELSE IF text_content < MinContent THEN ParseFailed
        ELSE ParsedRecord(text_content, now)

\* OklahomaDocumentParser._extract_main_text: the substantial <pre> tags, else
\* the content div, else all the text of the page.
extract_main_text(html) ==
    IF html.len["pre"] > PreMin THEN html.len["pre"]
    ELSE IF html.len["oscn_content"] > 0 THEN html.len["oscn_content"]
    ELSE AllText(html)

\* OklahomaDocumentParser.parse_html_file: undecodable bytes are ignored and
\* a record is always returned.
parse_html_file(html, now) == ParsedRecord(extract_main_text(html), now)

\* parse_oscn_statute_improved: the first <pre>, else the content div; with
\* neither, the record is returned with main_text None. No timestamp.
parse_oscn_statute_improved(html) ==
    IF html.len["pre"] > 0 THEN ParsedRecord(html.len["pre"], 0)
    ELSE IF html.len["oscn_content"] > 0 THEN ParsedRecord(html.len["oscn_content"], 0)
    ELSE [kind |-> "record", has_text |-> FALSE, main_text |-> 0, stamp |-> 0]

InitParse ==
    /\ JobsInit({"none"})
    /\ FetchIdle /\ CrawlIdle /\ StoreIdle /\ WebIdle /\ CacheIdle /\ IndexIdle
    /\ ChatIdle
    /\ html_file \in HtmlFiles
    /\ parser = "none"
    /\ parse_out = <<>>
    /\ clock = 1

\* One more call of the parser p on the file; datetime.now() never runs back.
Parsed(p, out, now) ==
    /\ Len(parse_out) < MaxParses
    /\ parser \in {"none", p}
    /\ parser' = p
    /\ parse_out' = Append(parse_out, out)
    /\ clock' = now
    /\ UNCHANGED <<notParse, html_file>>

ParseStatuteHtml ==
    \E now \in clock..MaxClock :
        Parsed("parse_statute_html", parse_statute_html(html_file, now), now)

ParseHtmlFile ==
    \E now \in clock..MaxClock :
        Parsed("parse_html_file", parse_html_file(html_file, now), now)

ParseOscnStatuteImproved ==
    Parsed("parse_oscn_statute_improved", parse_oscn_statute_improved(html_file), clock)

NextParse ==
    \/ ParseStatuteHtml
    \/ ParseHtmlFile
    \/ ParseOscnStatuteImproved

SpecParse == InitParse /\ [][NextParse]_vars

\* ------------------------------------------------------------ vector index
\* The embedding input budget, scaled down.
MAX_TEXT_LENGTH == 4
MaxWords == 3
MaxVersions == 3

WordLens == {1, 2, MAX_TEXT_LENGTH + 1}

\* The texts of a section: its words, separated by single blanks.
Texts == UNION {[1..n -> WordLens] : n \in 1..MaxWords}

RECURSIVE SumLens(_)
SumLens(words) == IF words = <<>> THEN 0 ELSE Head(words) + SumLens(Tail(words))

\* len(text)
TextLen(words) == SumLens(words) + Len(words) - 1

\* The loop of chunk_text over the words from position k on: chunks are the
\* chunks closed so far, current_length the length counted for current_chunk
\* (0 when it is empty), each word counted with one blank.
RECURSIVE ChunkLoop(_, _, _, _, _)
ChunkLoop(words, k, chunks, current_length, max_length) ==
    IF k > Len(words)
    THEN IF current_length > 0 THEN Append(chunks, current_length - 1) ELSE chunks
    ELSE LET word_length == words[k] + 1
         IN  IF current_length + word_length > max_length
             THEN ChunkLoop(words, k + 1,
                            IF current_length > 0
                            THEN Append(chunks, current_length - 1) ELSE chunks,
                            word_length, max_length)
             ELSE ChunkLoop(words, k + 1, chunks, current_length + word_length,
                            max_length)

\* chunk_text: the lengths of the chunks of a text.
chunk_text(words, max_length) ==
    IF TextLen(words) <= max_length THEN <<TextLen(words)>>
    ELSE ChunkLoop(words, 1, <<>>, 0, max_length)

\* chunk_id: the citeId, with _chunk_<index> when there are several chunks.
ChunkId(chunk_idx, total_chunks) ==
    IF total_chunks > 1 THEN <<"cite_id", "chunk", chunk_idx>> ELSE <<"cite_id">>

\* index.upsert: a vector replaces the one with the same id.
Upsert(index, new) == {v \in index : \A w \in new : w.id # v.id} \cup new

InitIndex ==
    /\ JobsInit({"none"})
    /\ FetchIdle /\ CrawlIdle /\ StoreIdle /\ WebIdle /\ CacheIdle /\ ParseIdle
    /\ ChatIdle
    /\ doc_words \in Texts
    /\ doc_version = 1
    /\ pinecone = {}
    /\ g_chunks = <<>>
    /\ g_index_ok = FALSE

\* The section is written again with another text.
RewriteSection ==
    /\ doc_version < MaxVersions
    /\ doc_words' \in Texts \ {doc_words}
    /\ doc_version' = doc_version + 1
    /\ g_chunks' = <<>>
    /\ g_index_ok' = FALSE
    /\ UNCHANGED <<notIndex, pinecone>>

\* build_vector_database: prepare_vectors_for_upload and
\* upload_vectors_to_pinecone. A chunk whose embedding fails is left out, a
\* batch whose upsert fails is not uploaded.
BuildVectorDatabase ==
    LET text_chunks == chunk_text(doc_words, MAX_TEXT_LENGTH)
    IN  \E upserted \in SUBSET (1..Len(text_chunks)) :
            /\ pinecone' = Upsert(pinecone,
                              {[id |-> ChunkId(n - 1, Len(text_chunks)),
                                version |-> doc_version] : n \in upserted})
            /\ g_chunks' = text_chunks
            /\ g_index_ok' = (upserted = 1..Len(text_chunks))
            /\ UNCHANGED <<notIndex, doc_words, doc_version>>

NextIndex ==
    \/ RewriteSection
    \/ BuildVectorDatabase

SpecIndex == InitIndex /\ [][NextIndex]_vars

\* ----------------------------------------------------- answers and history
\* The relevance threshold 0.5, in tenths.
ScoreThreshold == 5
\* Default of max_messages (and of limit), scaled down.
max_messages == 2
\* The number of history messages generate_answer keeps, scaled down.
HistoryLimit == 2
MaxMessages == 4

\* Similarity scores of retrieved passages, in tenths.
Scores == {ScoreThreshold - 1, ScoreThreshold, ScoreThreshold + 1}

\* src/rag_search.py and src/oklahoma_legal/rag_search.py
Composers == {"rag_search", "oklahoma_legal.rag_search"}

RECURSIVE MaxOf(_)
MaxOf(S) ==
    IF S = {} THEN 0
    ELSE LET x == CHOOSE y \in S : TRUE
         IN  IF x >= MaxOf(S \ {x}) THEN x ELSE MaxOf(S \ {x})

\* .order('created_at', desc=False)
RECURSIVE OrderByCreatedAt(_)
OrderByCreatedAt(rows) ==
    IF rows = {} THEN <<>>
    ELSE LET first == CHOOSE r \in rows : \A q \in rows : r.created_at <= q.created_at
         IN  <<first>> \o OrderByCreatedAt(rows \ {first})

\* .limit(limit)
Limit(rows, limit) == SubSeq(rows, 1, IF Len(rows) < limit THEN Len(rows) ELSE limit)

\* get_conversation_history: the rows of the session in ascending order of
\* created_at, cut by limit.
get_conversation_history(rows, limit) == Limit(OrderByCreatedAt(rows), limit)

\* conversation_history[-10:]
LastOf(history, n) ==
    IF Len(history) > n THEN SubSeq(history, Len(history) - n + 1, Len(history))
    ELSE history

\* The system prompt generate_answer chooses for the passages' scores.
SystemPrompt(module, context_scores) ==
    IF module = "rag_search" THEN "constitution_text_only"
    ELSE IF MaxOf(context_scores) > ScoreThreshold THEN "legal_text"
    ELSE "general_knowledge"

NoHistory == [status |-> "none", total |-> 0, messages |-> <<>>]
NoPrompt == [template |-> "none", max_score |-> 0, history |-> <<>>]

InitChat ==
    /\ JobsInit({"none"})
    /\ FetchIdle /\ CrawlIdle /\ StoreIdle /\ WebIdle /\ CacheIdle
    /\ ParseIdle /\ IndexIdle
    /\ composer \in Composers
    /\ session_rows = {}
    /\ llm_history = NoHistory
    /\ llm_prompt = NoPrompt

\* add_message: users and the assistant take turns.
AddMessage ==
    /\ Cardinality(session_rows) < MaxMessages
    /\ LET n == Cardinality(session_rows) + 1
       IN  session_rows' = session_rows \cup
               {[created_at |-> n,
                 role |-> IF n % 2 = 1 THEN "user" ELSE "assistant"]}
    /\ UNCHANGED <<notChat, composer, llm_history, llm_prompt>>

\* get_messages_for_llm: the history, or [] when the query failed.
GetMessagesForLlm ==
    /\ \/ llm_history' = [status |-> "ok", total |-> Cardinality(session_rows),
                          messages |-> get_conversation_history(session_rows,
                                                                max_messages)]
       \/ llm_history' = [status |-> "error", total |-> Cardinality(session_rows),
                          messages |-> <<>>]
    /\ UNCHANGED <<notChat, composer, session_rows, llm_prompt>>

\* generate_answer for passages with the given scores; the caller passes no
\* history, the history get_messages_for_llm returned, or all the messages.
GenerateAnswer ==
    \E context_scores \in SUBSET Scores \ {{}},
       conversation_history \in {<<>>, llm_history.messages,
                                 OrderByCreatedAt(session_rows)} :
        /\ llm_prompt' =
              [template |-> SystemPrompt(composer, context_scores),
               max_score |-> MaxOf(context_scores),
               history |-> IF composer = "rag_search" THEN <<>>
                           ELSE LastOf(conversation_history, HistoryLimit)]
        /\ UNCHANGED <<notChat, composer, session_rows, llm_history>>

NextChat ==
    \/ AddMessage
    \/ GetMessagesForLlm
    \/ GenerateAnswer

SpecChat == InitChat /\ [][NextChat]_vars

\* ------------------------------------------------------------------ views
\* The scripts that keep a scraped set and compute their remaining work from it.
Trackers == {"html", "batch", "slow", "embed"}

\* The scraped set the running tracker holds in memory.
MemScraped ==
    CASE script = "html"  -> downloaded_ids
      [] script = "batch" -> scraped_cite_ids
      [] script = "slow"  -> downloaded
      [] script = "embed" -> {cases_processed[k].cite_id : k \in 1..Len(cases_processed)}
      [] OTHER -> {}

\* The failure list the running script holds in memory.
MemFailed ==
    CASE script = "html"  -> failed_ids
      [] script = "batch" -> failed_cite_ids
      [] script = "retry" -> still_failed
      [] OTHER -> <<>>

CiteIdsOf(list) == {list[k].cite_id : k \in 1..Len(list)}
FileScrapedIds == CiteIdsOf(progress_file.scraped)
IsPrefix(s, t) == Len(s) <= Len(t) /\ SubSeq(t, 1, Len(s)) = s

\* Successes the running tracker holds that the progress file does not.
UnsavedSuccesses == MemScraped \ FileScrapedIds

C3_NoRefetch ==
    /\ script \in Trackers => g_fetched \cap g_loaded.scraped = {}
    /\ (script = "html" /\ pc # "load")
          => Range(to_download) = Range(urls) \ g_loaded.scraped
    /\ (script = "batch" /\ pc # "load")
          => Range(remaining_cite_ids) = Range(urls) \ g_loaded.scraped
    /\ (script = "embed" /\ pc # "load")
          => Range(cases_to_process) = Range(urls) \ g_loaded.scraped

\* A resumed BatchCaseScraper run that loaded scraped citeIds has fetched others.
C3_Witness ==
    /\ script = "batch" /\ runs >= 2
    /\ g_loaded.scraped # {}
    /\ g_fetched # {}

\* ------------------------------------------------------------------ C4
\* C4 as stated: no citeId is persisted as scraped before its terminal outcome.
\* For BatchCaseScraper the terminal outcome of a scraped case is its row in
\* oklahoma_cases: every citeId of the file's scraped list has been stored.
C4_PersistedOnlyWhenStored ==
    (prog = "batch" /\ progress_file.state = "ok")
       => FileScrapedIds \subseteq oklahoma_cases

\* ------------------------------------------------------------------ C5
\* C5 as stated: a failure on one document never aborts a bulk job; no run ends
\* by itself while items of its work list are unattempted.
C5_NeverAborts == ~g_abandoned

C7_OnlyAppended ==
    pc = "save_dump"
       => /\ g_loaded.scraped \subseteq CiteIdsOf(SaveContents.scraped)
          /\ CiteIdsOf(g_loaded.failed) \subseteq CiteIdsOf(SaveContents.failed)

\* C7, amended: a write keeps every scraped citeId the writing run found in
\* the file, and the bulk downloaders append to the failed list they loaded;
\* the retry script replaces the failed list by the items that still fail.
C7_ScrapedOnlyAppended ==
    pc = "save_dump"
       => /\ g_loaded.scraped \subseteq CiteIdsOf(SaveContents.scraped)
          /\ script \in {"html", "batch"} => IsPrefix(g_loaded.failed, SaveContents.failed)
          /\ script = "retry" => SaveContents.failed = still_failed

\* The retry script writes the file after a retry that succeeded, with loaded
\* scraped citeIds to keep.
C7_Witness ==
    /\ script = "retry" /\ pc = "save_dump"
    /\ g_loaded.scraped # {}
    /\ newly_successful # <<>>

\* ------------------------------------------------------------------ C8
\* C8 as stated: an interrupt at any point, also during the write of the
\* progress file, leaves a file the next run can load: never a truncated one.
C8_NoCorruption ==
    (script = "none" /\ exit_status = "interrupted") => progress_file.state # "partial"

C10_DelayBeforeEveryRequest ==
    requests_sent >= 2 => g_wait_before >= rate_limit_delay
\* ------------------------------------------------------------------ C11
\* C11 as stated: a fetch that ends on an anti-bot challenge page ends with
\* the error kind "blocked", which no other failure gives, and never as a
\* success.
C11_ChallengeSurfacedAsBlocked ==
    /\ (fpc = "done" /\ last_response = "challenge") => fetch_result = "blocked"
    /\ (fpc = "done" /\ last_response # "challenge") => fetch_result # "blocked"
\* ------------------------------------------------------------------ C12
\* C12 as stated: the list the discovery returns for a court holds each citeId
\* once, however often the pages of its levels, years and searches link to it.
C12_EachCiteIdOnce ==
    cpc = "done"
       => \A j, k \in 1..Len(cite_ids) : cite_ids[j] = cite_ids[k] => j = k

ChildrenOf(c) ==
    {<<ch.table, ch.version>> :
        ch \in {x \in child_rows : \E r \in RowsOf(c) : r.id = x.statute_id}}

\* The child tables the storage contract names.
ContractTables == {"statute_paragraphs", "statute_definitions", "legislative_history",
                   "statute_citations"}

\* C14: when a citeId that already exists in the store is re-scraped and the
\* write succeeds with no error in any table, the child rows stored for it
\* (paragraphs, definitions, history, citations) are exactly those of the
\* latest parse.
C14_ChildRowsAreLatestParse ==
    (/\ last_write.op \in {"scrape_and_store_statute", "update_database_record"}
     /\ last_write.existed
     /\ last_write.success
     /\ last_write.cause = "none"
     /\ last_write.action # "skipped")
    => \A c \in last_write.cite_ids :
          {p \in ChildrenOf(c) : p[1] \in ContractTables}
            = {<<t, last_write.version>> : t \in ContractTables}

\* C15: when a child-table insert fails after the main record was inserted,
\* the write is reported as failed and the main record of that parse is
\* still in the store.
C15_MainRecordStays ==
    last_write.cause = "child"
    => /\ ~last_write.success
       /\ \E r \in statutes :
            /\ r.id = last_write.statute_id
            /\ r.cite_id \in last_write.cite_ids
            /\ r.version = last_write.version

\* insert_statute failed in a child table after it had filled an earlier one.
C15_Witness ==
    /\ last_write.cause = "child"
    /\ \E ch \in child_rows : ch.statute_id = last_write.statute_id
    /\ \E t \in ContractTables :
         \A ch \in child_rows : ch.statute_id = last_write.statute_id => ch.table # t

\* C16: a write of a citeId that is already stored, unless the transport,
\* the scrape or a child table failed, succeeds and leaves exactly one record
\* for the citeId.
C16_SecondWriteOverwrites ==
    (/\ last_write.existed
     /\ last_write.cause \notin {"transient", "scrape", "child", "related_warning"}
     /\ last_write.action # "skipped")
    => /\ last_write.success
       /\ \A c \in last_write.cite_ids :
            \/ last_write.op = "upload_to_pinecone"
            \/ Cardinality(RowsOf(c)) = 1

\* C17: a retrieval that reached the indexes, with every index connected,
\* has queried every partition its source selection covers; a question, like
\* a search over all sources, covers all four partitions.
C17_EveryCoveredPartitionQueried ==
    (/\ web_req.route \in {"search", "ask"}
     /\ web_req.searched
     /\ connected = Partitions)
    => Covered(web_req.source) \subseteq web_req.queried

\* C18: the response to a request that failed internally carries no
\* exception text and no traceback.
C18_NoInternalDetail ==
    web_req.internal_error
    => response.detail \cap {"exception_text", "traceback"} = {}

\* C19: a question for which no document was found, or whose completion call
\* failed, is answered with the message that no relevant information could
\* be found, not with an error.
C19_GracefulDecline ==
    (web_req.route = "ask" /\ (web_req.no_documents \/ web_req.completion_failed))
    => /\ response.kind = "answer"
       /\ response.text = "I could not find relevant information"
       /\ response.detail = {}

\* C20: once the ready flag is set (or the key set cached), the cached
\* clients are the ones cached at that moment: no later and no concurrently
\* handled request clears or replaces them.
C20_NeverReplaced == ready => clients = g_cached

\* C25: in the batch scrapers a citeId is in the persisted scraped set at the
\* end of a run only if its record is in the relational store, and a later
\* run loads no citeId as done whose record is not stored.
C25_ScrapedOnlyIfInserted ==
    /\ (prog = "batch" /\ script = "none" /\ exit_status = "done"
          /\ progress_file.state = "ok")
          => FileScrapedIds \subseteq oklahoma_cases
    /\ (script = "batch" /\ pc # "load") => g_loaded.scraped \subseteq oklahoma_cases

\* C27: at the end of a run over the downloader's progress file no citeId is
\* both in the downloaded list and in the failed list.
C27_NotBothDownloadedAndFailed ==
    (prog = "html" /\ script = "none" /\ exit_status = "done"
       /\ progress_file.state = "ok")
    => FileScrapedIds \cap CiteIdsOf(progress_file.failed) = {}

\* C28: every entry of the persisted downloaded list is a citeId, whichever
\* script wrote it, so that the downloader can load it into its set.
C28_DownloadedEntriesAreCiteIds ==
    (prog = "html" /\ progress_file.state = "ok") => Hashable(progress_file.scraped)

C21_FailureSignalWhenNoContent ==
    \A n1 \in 1..Len(parse_out) :
        AllText(html_file) < MinContent => parse_out[n1].kind = "none"

C23_EveryChunkWithinBudget ==
    (g_chunks # <<>> /\ TextLen(doc_words) > MAX_TEXT_LENGTH)
    => \A n \in 1..Len(g_chunks) : g_chunks[n] <= MAX_TEXT_LENGTH

\* C29: after a document is indexed again with no error, the index holds no
\* vector for it derived from an earlier version of its text.
C29_NoVectorOfEarlierVersion ==
    g_index_ok => \A v \in pinecone : v.version = doc_version

\* C24: if the top similarity score of the retrieved passages is below the
\* threshold, the answer composer uses the template that permits answering
\* from general knowledge; otherwise it uses the template that treats the
\* retrieved passages as authoritative.
C24_TemplateFollowsThreshold ==
    llm_prompt.template # "none"
    => IF llm_prompt.max_score < ScoreThreshold
       THEN llm_prompt.template = "general_knowledge"
       ELSE llm_prompt.template \in {"legal_text", "constitution_text_only"}

\* C30: when the session holds more messages than the limit, the history
\* returned for the language model is the most recent messages up to the
\* limit, in chronological order.
C30_MostRecentMessages ==
    (llm_history.status = "ok" /\ llm_history.total > max_messages)
    => /\ Len(llm_history.messages) = max_messages
       /\ \A n \in 1..Len(llm_history.messages) :
             llm_history.messages[n].created_at
                = llm_history.total - max_messages + n

=============================================================================
